---- MODULE Spec2Model ----
(***************************************************************************)
(* The lexer of littleschemer (src/src/lexer.rs): lex_input scans a string *)
(* left to right with an InputBuffer (input, current_idx) and pushes       *)
(* LexTokens to an output vector.  Characters are one-character strings,   *)
(* a text is a sequence of characters, current_idx counts characters       *)
(* (0-based, as InputBuffer does with chars().nth / chars().count()).      *)
(* The earlier, index-based lex_input of src/src/parser.rs is modelled as  *)
(* a function (parser_lex_input) and compared with it.                     *)
(***************************************************************************)
EXTENDS Integers, Sequences, FiniteSets, TLC

\* Longest input text that is explored.
MaxLen == 4

\* The alphabet of the explored inputs: one representative of every class
\* of character the lexer tells apart.
Chars == {"\"", "\\", "(", ")", " ", "1", ".", "e", "-", "a"}

Inputs == UNION {[1..n -> Chars] : n \in 0..MaxLen}

Min(S) == CHOOSE x \in S : \A y \in S : x <= y

----------------------------------------------------------------------------
(* LexToken *)

\* f64 payload: the decimal value mant * 10^exp with mant free of trailing
\* zeros, a sign bit (f64 keeps -0.0) and an overflow-to-infinity flag.
NoNum == [neg |-> FALSE, mant |-> 0, exp |-> 0, inf |-> FALSE]

Num(v) == [type |-> "Num", text |-> <<>>, num |-> v]

Symbol(t) == [type |-> "Symbol", text |-> t, num |-> NoNum]

String(t) == [type |-> "String", text |-> t, num |-> NoNum]

LeftBracket == [type |-> "LeftBracket", text |-> <<>>, num |-> NoNum]

RightBracket == [type |-> "RightBracket", text |-> <<>>, num |-> NoNum]

\* The value a rule that did not apply carries (Option::None).
NoToken == [type |-> "None", text |-> <<>>, num |-> NoNum]

----------------------------------------------------------------------------
(* Character classes *)

DigitChars == <<"0", "1", "2", "3", "4", "5", "6", "7", "8", "9">>

\* char::is_numeric, restricted to the alphabet (ASCII digits).
is_numeric(c) == \E i \in 1..Len(DigitChars) : DigitChars[i] = c

\* char::is_whitespace, restricted to the alphabet.
is_whitespace(c) == c \in {" ", "\t", "\n", "\r"}

\* The closure of lex_number: a character of a numeric-looking run.
is_number_char(c) == is_numeric(c) \/ c = "." \/ c = "e" \/ c = "-"

\* The closure of lex_symbol without its whitespace test.
is_symbol_char_keeps_whitespace(c) == c # "(" /\ c # ")"

\* The closure of lex_symbol without its test for the closing bracket.
is_symbol_char_keeps_close(c) == ~is_whitespace(c) /\ c # "("

\* The closure of lex_symbol, made to stop at a double quote as well.
is_symbol_char_stops_at_quote(c) ==
    ~is_whitespace(c) /\ c # "(" /\ c # ")" /\ c # "\""

\* The closure of lex_symbol: a character of a symbol.
is_symbol_char(c) == ~is_whitespace(c) /\ c # "(" /\ c # ")"

\* The two closures as the sets of characters they accept.
number_chars == {c \in Chars : is_number_char(c)}

symbol_chars == {c \in Chars : is_symbol_char(c)}

----------------------------------------------------------------------------
(* InputBuffer *)

has_chars_remaining(s, idx) == Len(s) > idx

\* The character next_char_is hands to its predicate.
next_char(s, idx) == s[idx + 1]

\* The longest run of characters from idx on that satisfy look_for; the
\* predicate look_for is given as the set of characters it accepts.
read_while(look_for, s, idx) ==
    LET stops == {j \in (idx + 1)..Len(s) : s[j] \notin look_for}
    IN  SubSeq(s, idx + 1, IF stops = {} THEN Len(s) ELSE Min(stops) - 1)

----------------------------------------------------------------------------
(* str::parse::<f64> on a run of number characters *)

DigitVal(c) == (CHOOSE i \in 1..Len(DigitChars) : DigitChars[i] = c) - 1

RECURSIVE DecVal(_)
\* The value of a sequence of digits (0 for the empty sequence).
DecVal(ds) ==
    IF ds = <<>> THEN 0
    ELSE 10 * DecVal(SubSeq(ds, 1, Len(ds) - 1)) + DigitVal(ds[Len(ds)])

RECURSIVE NumDigits(_)
NumDigits(m) == IF m < 10 THEN 1 ELSE 1 + NumDigits(m \div 10)

RECURSIVE Normalize(_, _)
\* mant * 10^exp with the trailing zeros of mant moved to exp.
Normalize(m, e) ==
    IF m = 0 THEN <<0, 0>>
    ELSE IF m % 10 = 0 THEN Normalize(m \div 10, e + 1)
    ELSE <<m, e>>

\* Largest and smallest decimal order of magnitude of a finite nonzero f64
\* whose leading digits are at most 1.7 (f64::MAX is 1.797e308, values
\* below 2.47e-324 round to zero).
MaxOrder == 308

MinOrder == -323

AllDigits(t) == \A i \in 1..Len(t) : is_numeric(t[i])

\* Float ::= '-'? Number ; Number ::= (D+ | D+ '.' D* | D* '.' D+) Exp? ;
\* Exp ::= 'e' '-'? D+   (the grammar of f64::from_str on this alphabet).
parse_f64(run) ==
    LET neg     == Len(run) > 0 /\ run[1] = "-"
        body    == IF neg THEN Tail(run) ELSE run
        es      == {i \in 1..Len(body) : body[i] = "e"}
        hasExp  == es # {}
        epos    == IF hasExp THEN Min(es) ELSE Len(body) + 1
        mstr    == SubSeq(body, 1, epos - 1)
        xstr    == SubSeq(body, epos + 1, Len(body))
        dots    == {i \in 1..Len(mstr) : mstr[i] = "."}
        dpos    == IF dots = {} THEN Len(mstr) + 1 ELSE Min(dots)
        ipart   == SubSeq(mstr, 1, dpos - 1)
        fpart   == SubSeq(mstr, dpos + 1, Len(mstr))
        xneg    == Len(xstr) > 0 /\ xstr[1] = "-"
        xdigits == IF xneg THEN Tail(xstr) ELSE xstr
        mantOk  == /\ AllDigits(ipart)
                   /\ AllDigits(fpart)
                   /\ Len(ipart) + Len(fpart) >= 1
        expOk   == hasExp => (Len(xdigits) >= 1 /\ AllDigits(xdigits))
        xval    == IF hasExp
                   THEN (IF xneg THEN 0 - DecVal(xdigits) ELSE DecVal(xdigits))
                   ELSE 0
        nrm     == Normalize(DecVal(ipart \o fpart), xval - Len(fpart))
        order   == nrm[2] + NumDigits(nrm[1]) - 1
    IN  IF ~(mantOk /\ expOk) THEN [ok |-> FALSE, val |-> NoNum]
        ELSE IF nrm[1] # 0 /\ order > MaxOrder
             THEN [ok |-> TRUE,
                   val |-> [neg |-> neg, mant |-> 0, exp |-> 0, inf |-> TRUE]]
        ELSE IF nrm[1] = 0 \/ order < MinOrder
             THEN [ok |-> TRUE,
                   val |-> [neg |-> neg, mant |-> 0, exp |-> 0, inf |-> FALSE]]
        ELSE [ok |-> TRUE,
              val |-> [neg |-> neg, mant |-> nrm[1], exp |-> nrm[2],
                       inf |-> FALSE]]

----------------------------------------------------------------------------
(* The token rules.  Each yields kind "Some" (a token and the new          *)
(* current_idx), "None" (the rule does not apply, current_idx untouched)   *)
(* or "Panic" (an expect() on a missing character aborted the call).       *)

None(idx) == [kind |-> "None", tok |-> NoToken, idx |-> idx]

Some(tok, idx) == [kind |-> "Some", tok |-> tok, idx |-> idx]

Panic(idx) == [kind |-> "Panic", tok |-> NoToken, idx |-> idx]

RECURSIVE string_loop_no_escape(_, _, _, _)
\* string_loop with a closing test that ignores escape_next_char.
string_loop_no_escape(s, idx, out, escape_next_char) ==
    IF ~has_chars_remaining(s, idx) THEN Panic(idx)
    ELSE LET c == next_char(s, idx)
         IN  IF c = "\""
                 THEN Some(String(out), idx + 1)
             ELSE IF c = "\\" /\ ~escape_next_char
                 THEN string_loop_no_escape(s, idx + 1, out, TRUE)
             ELSE string_loop_no_escape(s, idx + 1, Append(out, c), FALSE)

RECURSIVE string_loop_keeps_unknown_escape(_, _, _, _)
\* string_loop that keeps the backslash of an escape other than \" and \\.
string_loop_keeps_unknown_escape(s, idx, out, escape_next_char) ==
    IF ~has_chars_remaining(s, idx) THEN Panic(idx)
    ELSE LET c == next_char(s, idx)
         IN  IF c = "\"" /\ ~escape_next_char
                 THEN Some(String(out), idx + 1)
             ELSE IF c = "\\" /\ ~escape_next_char
                 THEN string_loop_keeps_unknown_escape(s, idx + 1, out, TRUE)
             ELSE IF escape_next_char /\ c # "\"" /\ c # "\\"
                 THEN string_loop_keeps_unknown_escape(
                          s, idx + 1, out \o <<"\\", c>>, FALSE)
             ELSE string_loop_keeps_unknown_escape(
                      s, idx + 1, Append(out, c), FALSE)

RECURSIVE string_loop(_, _, _, _)
\* The loop of lex_string: idx is current_idx before take_next.
string_loop(s, idx, out, escape_next_char) ==
    IF ~has_chars_remaining(s, idx) THEN Panic(idx)
    ELSE LET c == next_char(s, idx)
         IN  IF c = "\"" /\ ~escape_next_char
                 THEN Some(String(out), idx + 1)
             ELSE IF c = "\\" /\ ~escape_next_char
                 THEN string_loop(s, idx + 1, out, TRUE)
             ELSE string_loop(s, idx + 1, Append(out, c), FALSE)

\* lex_string that yields None for a literal that the input does not
\* close, instead of aborting.
lex_string_none_if_unterminated(s, idx) ==
    IF next_char(s, idx) # "\"" THEN None(idx)
    ELSE IF string_loop(s, idx + 1, <<>>, FALSE).kind = "Panic" THEN None(idx)
    ELSE string_loop(s, idx + 1, <<>>, FALSE)

lex_string(s, idx) ==
    IF next_char(s, idx) # "\"" THEN None(idx)
    ELSE string_loop(s, idx + 1, <<>>, FALSE)

\* lex_number that hands a run that does not parse back as a Symbol of
\* that run instead of leaving it to lex_symbol.
lex_number_run_as_symbol(s, idx) ==
    IF ~is_number_char(next_char(s, idx)) THEN None(idx)
    ELSE LET num_as_string == read_while(number_chars, s, idx)
             parsed        == parse_f64(num_as_string)
         IN  IF parsed.ok THEN Some(Num(parsed.val), idx + Len(num_as_string))
             ELSE Some(Symbol(num_as_string), idx + Len(num_as_string))

\* lex_number that takes a run that does not parse for the number 0.
lex_number_unwrap_or_default(s, idx) ==
    IF ~is_number_char(next_char(s, idx)) THEN None(idx)
    ELSE LET num_as_string == read_while(number_chars, s, idx)
             parsed        == parse_f64(num_as_string)
         IN  Some(Num(parsed.val), idx + Len(num_as_string))

\* lex_number that also skips the character after the run.
lex_number_skips_delimiter(s, idx) ==
    IF ~is_number_char(next_char(s, idx)) THEN None(idx)
    ELSE LET num_as_string == read_while(number_chars, s, idx)
             parsed        == parse_f64(num_as_string)
         IN  IF parsed.ok
             THEN Some(Num(parsed.val), idx + Len(num_as_string) + 1)
             ELSE None(idx)

lex_number(s, idx) ==
    IF ~is_number_char(next_char(s, idx)) THEN None(idx)
    ELSE LET num_as_string == read_while(number_chars, s, idx)
             parsed        == parse_f64(num_as_string)
         IN  IF parsed.ok THEN Some(Num(parsed.val), idx + Len(num_as_string))
             ELSE None(idx)

\* lex_left_bracket that skips the character after the bracket as well.
lex_left_bracket_skips_two(s, idx) ==
    IF next_char(s, idx) # "(" THEN None(idx)
    ELSE Some(LeftBracket, idx + 2)

lex_left_bracket(s, idx) ==
    IF next_char(s, idx) # "(" THEN None(idx)
    ELSE Some(LeftBracket, idx + 1)

lex_right_bracket(s, idx) ==
    IF next_char(s, idx) # ")" THEN None(idx)
    ELSE Some(RightBracket, idx + 1)

\* lex_whitespace that skips the character after the whitespace as well.
lex_whitespace_skips_two(s, idx) ==
    IF is_whitespace(next_char(s, idx)) THEN Some(NoToken, idx + 2)
    ELSE None(idx)

\* kind "Some" stands for true (one character skipped, no token).
lex_whitespace(s, idx) ==
    IF is_whitespace(next_char(s, idx)) THEN Some(NoToken, idx + 1)
    ELSE None(idx)

lex_symbol(s, idx) ==
    LET output_text == read_while(symbol_chars, s, idx)
    IN  Some(Symbol(output_text), idx + Len(output_text))

----------------------------------------------------------------------------
(* lex_input as a function of its input *)

Running == [status |-> "Running", tokens |-> <<>>]

Ok(tokens) == [status |-> "Ok", tokens |-> tokens]

Aborted == [status |-> "Panic", tokens |-> <<>>]

\* One iteration of the scan loop: the first rule, in the order of the
\* loop body, that does not yield None.
lex_iteration(s, idx) ==
    IF lex_string(s, idx).kind # "None" THEN lex_string(s, idx)
    ELSE IF lex_number(s, idx).kind # "None" THEN lex_number(s, idx)
    ELSE IF lex_left_bracket(s, idx).kind # "None" THEN lex_left_bracket(s, idx)
    ELSE IF lex_right_bracket(s, idx).kind # "None" THEN lex_right_bracket(s, idx)
    ELSE IF lex_whitespace(s, idx).kind # "None" THEN lex_whitespace(s, idx)
    ELSE lex_symbol(s, idx)

RECURSIVE lex_loop(_, _, _)
lex_loop(s, idx, out) ==
    IF ~has_chars_remaining(s, idx) THEN Ok(out)
    ELSE LET r == lex_iteration(s, idx)
         IN  IF r.kind = "Panic" THEN Aborted
             ELSE lex_loop(s, r.idx,
                           IF r.tok = NoToken THEN out ELSE Append(out, r.tok))

lex_input(s) == lex_loop(s, 0, <<>>)

----------------------------------------------------------------------------
(* lex_input as a state machine: one action per rule of the scan loop *)

VARIABLES
    input,        \* the text handed to lex_input
    current_idx,  \* InputBuffer.current_idx
    output,       \* the Vec<LexToken> being built
    ret,          \* what lex_input gave its caller
    spans,        \* history: spans[k] = <<first, past-last>> index of output[k]
    token_start,  \* history: current_idx when the latest iteration began
    iterations    \* history: iterations of the scan loop begun so far

vars == <<input, current_idx, output, ret, spans, token_start, iterations>>

Init ==
    /\ input \in Inputs
    /\ current_idx = 0
    /\ output = <<>>
    /\ ret = Running
    /\ spans = <<>>
    /\ token_start = 0
    /\ iterations = 0

InLoop == ret = Running /\ has_chars_remaining(input, current_idx)

\* The iteration ends with rule result r: push its token, move on.
Push(r) ==
    /\ output' = Append(output, r.tok)
    /\ spans' = Append(spans, <<current_idx, r.idx>>)
    /\ current_idx' = r.idx
    /\ token_start' = current_idx
    /\ iterations' = iterations + 1
    /\ UNCHANGED <<input, ret>>

LexString ==
    /\ InLoop
    /\ LET r == lex_string(input, current_idx)
       IN  /\ r.kind # "None"
           /\ IF r.kind = "Panic"
              THEN /\ ret' = Aborted
                   /\ current_idx' = r.idx
                   /\ token_start' = current_idx
                   /\ iterations' = iterations + 1
                   /\ UNCHANGED <<input, output, spans>>
              ELSE Push(r)

LexNumber ==
    /\ InLoop
    /\ lex_string(input, current_idx).kind = "None"
    /\ LET r == lex_number(input, current_idx)
       IN  r.kind = "Some" /\ Push(r)

LexLeftBracket ==
    /\ InLoop
    /\ lex_string(input, current_idx).kind = "None"
    /\ lex_number(input, current_idx).kind = "None"
    /\ LET r == lex_left_bracket(input, current_idx)
       IN  r.kind = "Some" /\ Push(r)

LexRightBracket ==
    /\ InLoop
    /\ lex_string(input, current_idx).kind = "None"
    /\ lex_number(input, current_idx).kind = "None"
    /\ lex_left_bracket(input, current_idx).kind = "None"
    /\ LET r == lex_right_bracket(input, current_idx)
       IN  r.kind = "Some" /\ Push(r)

LexWhitespace ==
    /\ InLoop
    /\ lex_string(input, current_idx).kind = "None"
    /\ lex_number(input, current_idx).kind = "None"
    /\ lex_left_bracket(input, current_idx).kind = "None"
    /\ lex_right_bracket(input, current_idx).kind = "None"
    /\ LET r == lex_whitespace(input, current_idx)
       IN  /\ r.kind = "Some"
           /\ current_idx' = r.idx
           /\ token_start' = current_idx
           /\ iterations' = iterations + 1
           /\ UNCHANGED <<input, output, ret, spans>>

LexSymbol ==
    /\ InLoop
    /\ lex_string(input, current_idx).kind = "None"
    /\ lex_number(input, current_idx).kind = "None"
    /\ lex_left_bracket(input, current_idx).kind = "None"
    /\ lex_right_bracket(input, current_idx).kind = "None"
    /\ lex_whitespace(input, current_idx).kind = "None"
    /\ LET r == lex_symbol(input, current_idx)
       IN  r.kind = "Some" /\ Push(r)

\* The loop condition fails: Ok(output).
Return ==
    /\ ret = Running
    /\ ~has_chars_remaining(input, current_idx)
    /\ ret' = Ok(output)
    /\ UNCHANGED <<input, current_idx, output, spans, token_start, iterations>>

Next ==
    \/ LexString
    \/ LexNumber
    \/ LexLeftBracket
    \/ LexRightBracket
    \/ LexWhitespace
    \/ LexSymbol
    \/ Return

Spec == Init /\ [][Next]_vars

\* One iteration of the scan loop, whichever rule it ends with.
Iterate ==
    \/ LexString
    \/ LexNumber
    \/ LexLeftBracket
    \/ LexRightBracket
    \/ LexWhitespace
    \/ LexSymbol

\* lex_input is one sequential call: while the loop condition holds the
\* next iteration is run, and when it fails the call returns.  The second
\* conjunct is the weak fairness of Iterate, WF_vars(Iterate), written out
\* with InLoop, the condition under which an iteration can be run.
FairSpec ==
    /\ Spec
    /\ WF_vars(Return)
    /\ ([]<>(~InLoop) \/ []<><<Iterate>>_vars)

TypeOK ==
    /\ current_idx \in 0..Len(input)
    /\ Len(spans) = Len(output)
    /\ ret.status \in {"Running", "Ok", "Panic"}
    /\ token_start <= current_idx
    /\ ret.status # "Running" => ret = lex_input(input)

----------------------------------------------------------------------------
(* Vocabulary of the properties, stated on the input text alone *)

Max(S) == CHOOSE x \in S : \A y \in S : x >= y

Returned == ret.status # "Running"

\* The characters of s at the (1-based) positions P, in ascending order.
Pick(s, P) ==
    [i \in 1..Cardinality(P) |->
        s[CHOOSE p \in P : Cardinality({r \in P : r < p}) = i - 1]]

\* The number of consecutive backslashes right before position q, not
\* reaching back to position lo or earlier.
BackslashesBefore(s, lo, q) ==
    LET others == {j \in (lo + 1)..(q - 1) : s[j] # "\\"}
    IN  IF others = {} THEN q - 1 - lo ELSE q - 1 - Max(others)

\* A position of a literal that opens at position lo is escaped when an odd
\* number of backslashes precedes it.
Escaped(s, lo, q) == BackslashesBefore(s, lo, q) % 2 = 1

\* The position of the quote that closes the literal opening at index idx
\* (position idx + 1): the first quote that is not escaped; 0 if none.
ClosingQuote(s, idx) ==
    LET qs == {q \in (idx + 2)..Len(s) : s[q] = "\"" /\ ~Escaped(s, idx + 1, q)}
    IN  IF qs = {} THEN 0 ELSE Min(qs)

\* The value of the literal between the opening quote at index idx and the
\* closing quote at position q: every character but the escaping backslashes.
Unescape(s, idx, q) ==
    Pick(s, {p \in (idx + 2)..(q - 1) :
                ~(s[p] = "\\" /\ ~Escaped(s, idx + 1, p))})

\* The latest iteration began at a quote that no later quote closes.
UnterminatedString ==
    /\ iterations > 0
    /\ next_char(input, token_start) = "\""
    /\ ClosingQuote(input, token_start) = 0

----------------------------------------------------------------------------
(* C1 *)

\* C1 (as claimed): when the input ends before the closing quote of a string
\* literal, lex_input returns an error value to its caller: it does not
\* abort and it returns no tokens.
C1_UnterminatedStringReturnsErr ==
    (Returned /\ UnterminatedString) =>
        (ret.status = "Err" /\ ret.tokens = <<>>)

----------------------------------------------------------------------------
(* C2 *)

\* C2: every string literal that starts at a token position is lexed as
\* exactly one String token that spans the text up to the first unescaped
\* quote and whose value is the text in between with backslash+quote turned
\* into a quote, backslash+backslash into a backslash and every other
\* character copied; only such literals give String tokens.
C2_StringToken ==
    \A k \in 1..Len(output) :
        LET start == spans[k][1]
            q     == ClosingQuote(input, start)
        IN  /\ output[k].type = "String" <=> next_char(input, start) = "\""
            /\ output[k].type = "String" =>
                  /\ q # 0
                  /\ spans[k][2] = q
                  /\ output[k] = String(Unescape(input, start, q))

\* A literal of two characters between its quotes was lexed to the end:
\* an escaped quote, an escaped backslash, or whitespace and a bracket.
C2_Witness ==
    /\ ret.status = "Ok"
    /\ \E k \in 1..Len(output) :
          /\ output[k].type = "String"
          /\ output[k].text \in {<<"\"">>, <<"\\">>, <<" ", "(">>}
          /\ spans[k][2] - spans[k][1] = 4

----------------------------------------------------------------------------
(* C3, C4, C5: numeric-looking runs *)

\* The longest run of characters from {digit, '.', 'e', '-'} at index p.
NumberRun(s, p) == read_while(number_chars, s, p)

\* Index p starts a numeric-looking run that is no floating-point number.
FailsAsNumber(s, p) ==
    is_number_char(next_char(s, p)) /\ ~parse_f64(NumberRun(s, p)).ok

\* Index p starts a numeric-looking run that is a floating-point number.
ParsesAsNumber(s, p) ==
    is_number_char(next_char(s, p)) /\ parse_f64(NumberRun(s, p)).ok

\* The f64 value mant * 10^exp, negated if neg.
F64(neg, mant, exp) == [neg |-> neg, mant |-> mant, exp |-> exp, inf |-> FALSE]

\* C3: when the run of number characters at a token position does not parse
\* as a floating-point number, lex_input does not fail there and takes
\* nothing as a number: the token of that position is the Symbol that
\* lex_symbol reads from the same position; lex("-") is [Symbol("-")] and
\* lex("e") is [Symbol("e")].
C3_FallsThroughToSymbol ==
    /\ \A k \in 1..Len(output) :
          FailsAsNumber(input, spans[k][1]) =>
              /\ output[k] = Symbol(read_while(symbol_chars, input, spans[k][1]))
              /\ spans[k][2] = spans[k][1] + Len(output[k].text)
    /\ (iterations > 0 /\ FailsAsNumber(input, token_start)) =>
          /\ ret.status # "Panic"
          /\ Len(spans) > 0
          /\ spans[Len(spans)][1] = token_start
    /\ (Returned /\ input = <<"-">>) => ret = Ok(<<Symbol(<<"-">>)>>)
    /\ (Returned /\ input = <<"e">>) => ret = Ok(<<Symbol(<<"e">>)>>)

\* A run that does not parse, followed by more symbol characters, was lexed
\* as one Symbol in the middle of other tokens.
C3_Witness ==
    /\ ret.status = "Ok"
    /\ \E k \in 1..Len(output) :
          /\ FailsAsNumber(input, spans[k][1])
          /\ output[k].type = "Symbol"
          /\ Len(output[k].text) > Len(NumberRun(input, spans[k][1]))
          /\ k > 1

\* C4 (as claimed): lex_input fails with a LexError when a numeric-looking
\* run at a token position cannot be parsed as a floating-point literal.
C4_InvalidNumberReturnsErr ==
    (Returned /\ \E k \in 1..Len(output) : FailsAsNumber(input, spans[k][1]))
        => ret.status = "Err"

\* C4 (amended): a numeric-looking run at a token position that cannot be
\* parsed as a floating-point literal, such as "1-1" or "1..", is no error:
\* lex_input never returns an error value, the run yields no Num token and
\* becomes the head of the token of that position, and the only failure of
\* lex_input is the abort on an unterminated string literal.
C4_InvalidNumberIsNoError ==
    /\ ret.status # "Err"
    /\ ret.status = "Panic" => UnterminatedString
    /\ \A k \in 1..Len(output) :
          FailsAsNumber(input, spans[k][1]) =>
              LET run == NumberRun(input, spans[k][1])
              IN  /\ output[k].type # "Num"
                  /\ Len(output[k].text) >= Len(run)
                  /\ SubSeq(output[k].text, 1, Len(run)) = run
    /\ (Returned /\ input = <<"1", "-", "1">>) =>
          ret = Ok(<<Symbol(<<"1", "-", "1">>)>>)
    /\ (Returned /\ input = <<"1", ".", "1", ".">>) =>
          ret = Ok(<<Symbol(<<"1", ".", "1", ".">>)>>)

\* lex_input returned Ok for an input with a run of digits that has two
\* signs or two points.
C4_Witness ==
    /\ ret.status = "Ok"
    /\ \E k \in 1..Len(output) :
          /\ FailsAsNumber(input, spans[k][1])
          /\ NumberRun(input, spans[k][1]) \in
                {<<"1", "-", "1">>, <<"1", ".", "1", ".">>, <<"1", ".", ".">>}

\* C5: when the run of number characters at a token position parses as a
\* floating-point number, lex_input emits one Num token for the whole run
\* and moves the scan position by the length of the run, alone or inside
\* brackets; Num tokens come from nothing else.
C5_NumToken ==
    /\ \A k \in 1..Len(output) :
          /\ ParsesAsNumber(input, spans[k][1]) <=> output[k].type = "Num"
          /\ output[k].type = "Num" =>
                /\ spans[k][2] = spans[k][1] + Len(NumberRun(input, spans[k][1]))
                /\ output[k].text = <<>>
                /\ \A j \in (k + 1)..Len(output) : spans[j][1] >= spans[k][2]
    /\ (iterations > 0 /\ ParsesAsNumber(input, token_start)) =>
          current_idx = token_start + Len(NumberRun(input, token_start))
    /\ (Returned /\ input = <<"-", "1">>) => ret = Ok(<<Num(F64(TRUE, 1, 0))>>)
    /\ (Returned /\ input = <<"1", ".", "1">>) =>
          ret = Ok(<<Num(F64(FALSE, 11, -1))>>)
    /\ (Returned /\ input = <<"1", ".", "e", "1">>) =>
          ret = Ok(<<Num(F64(FALSE, 1, 1))>>)
    /\ (Returned /\ input = <<"-", ".", "1">>) =>
          ret = Ok(<<Num(F64(TRUE, 1, -1))>>)
    /\ (Returned /\ input = <<"1", "e", "-", "1">>) =>
          ret = Ok(<<Num(F64(FALSE, 1, -1))>>)
    /\ (Returned /\ input = <<"(", "1", ")">>) =>
          ret = Ok(<<LeftBracket, Num(F64(FALSE, 1, 0)), RightBracket>>)
    /\ (Returned /\ input = <<"(", "-", "1", ")">>) =>
          ret = Ok(<<LeftBracket, Num(F64(TRUE, 1, 0)), RightBracket>>)

\* A negative number of several characters was lexed between brackets.
C5_Witness ==
    /\ ret.status = "Ok"
    /\ Len(output) = 3
    /\ output[1] = LeftBracket
    /\ output[2].type = "Num"
    /\ output[2].num.neg
    /\ spans[2][2] - spans[2][1] = 2
    /\ output[3] = RightBracket

----------------------------------------------------------------------------
(* C6: whitespace *)

\* Index p (0-based) lies in the span of a token.
Covered(p) == \E k \in 1..Len(spans) : spans[k][1] <= p /\ p < spans[k][2]

\* Index p (0-based) lies in the span of a String token.
InString(p) ==
    \E k \in 1..Len(spans) :
        output[k].type = "String" /\ spans[k][1] <= p /\ p < spans[k][2]

\* The positions (1-based) of the whitespace outside string literals, once
\* lex_input has returned Ok: the characters no token spans.
WhitespaceOutside == {p \in 1..Len(input) : ~Covered(p - 1)}

\* The places where whitespace can be put between tokens: i characters of
\* the input precede the place, and no token spans across it.
TokenBoundaries ==
    {i \in 0..Len(input) :
        ~\E k \in 1..Len(spans) : spans[k][1] < i /\ i < spans[k][2]}

Remove(s, p) == SubSeq(s, 1, p - 1) \o SubSeq(s, p + 1, Len(s))

Insert(s, i, c) == SubSeq(s, 1, i) \o <<c>> \o SubSeq(s, i + 1, Len(s))

IsBracketChar(c) == c = "(" \/ c = ")"

\* Removing the whitespace at position p leaves its neighbours separated:
\* it is the first or last character, or next to whitespace or a bracket.
Redundant(s, p) ==
    \/ p = 1
    \/ p = Len(s)
    \/ is_whitespace(s[p - 1]) \/ IsBracketChar(s[p - 1])
    \/ is_whitespace(s[p + 1]) \/ IsBracketChar(s[p + 1])

\* C6 (as claimed): whitespace outside string literals emits no token, and
\* inserting whitespace between tokens or removing whitespace outside
\* strings never changes what lex_input returns.
C6_WhitespaceNeverMatters ==
    ret.status = "Ok" =>
        /\ \A p \in WhitespaceOutside : is_whitespace(input[p])
        /\ \A k \in 1..Len(output) : ~is_whitespace(next_char(input, spans[k][1]))
        /\ \A i \in TokenBoundaries : lex_input(Insert(input, i, " ")) = ret
        /\ \A p \in WhitespaceOutside : lex_input(Remove(input, p)) = ret

\* C6 (amended): whitespace outside string literals emits no token;
\* inserting whitespace before, between or after tokens never changes what
\* lex_input returns, and neither does removing a whitespace character
\* outside strings that is leading, trailing or next to another whitespace
\* character or a bracket.
C6_WhitespaceBetweenTokens ==
    ret.status = "Ok" =>
        /\ \A p \in WhitespaceOutside : is_whitespace(input[p])
        /\ \A k \in 1..Len(output) : ~is_whitespace(next_char(input, spans[k][1]))
        /\ \A i \in TokenBoundaries : lex_input(Insert(input, i, " ")) = ret
        /\ \A p \in WhitespaceOutside :
              Redundant(input, p) => lex_input(Remove(input, p)) = ret

\* An input in which a run of two or more whitespace characters separates
\* two tokens was lexed.
C6_Witness ==
    /\ ret.status = "Ok"
    /\ Len(output) >= 2
    /\ Cardinality(WhitespaceOutside) >= 2
    /\ \E p \in WhitespaceOutside : Redundant(input, p) /\ p > 1 /\ p < Len(input)

----------------------------------------------------------------------------
(* C7: brackets *)

\* The indices (0-based) of the brackets lexed so far outside strings.
BracketIdx ==
    {p \in 0..(current_idx - 1) : IsBracketChar(input[p + 1]) /\ ~InString(p)}

BracketToken(c) == IF c = "(" THEN LeftBracket ELSE RightBracket

IsBracketToken(tok) == tok = LeftBracket \/ tok = RightBracket

\* The bracket tokens of toks as a text of bracket characters.
BracketText(toks) ==
    LET bs == SelectSeq(toks, IsBracketToken)
    IN  [i \in 1..Len(bs) |-> IF bs[i] = LeftBracket THEN "(" ELSE ")"]

Count(t, c, n) == Cardinality({i \in 1..n : t[i] = c})

\* Every closing bracket of the text t has its opening bracket before it,
\* and the other way round.
Balanced(t) ==
    /\ \A n \in 0..Len(t) : Count(t, "(", n) >= Count(t, ")", n)
    /\ Count(t, "(", Len(t)) = Count(t, ")", Len(t))

\* C7: every bracket outside a string literal is the span of exactly one
\* token, the bracket token of its kind; bracket tokens come from nothing
\* else and stand in source order; no Symbol or Num token spans a bracket;
\* balanced brackets in the source give balanced bracket tokens.
C7_BracketTokens ==
    ret.status # "Panic" =>
        /\ \A p \in BracketIdx :
              /\ Cardinality({k \in 1..Len(spans) :
                                 spans[k][1] <= p /\ p < spans[k][2]}) = 1
              /\ \E k \in 1..Len(spans) :
                    /\ spans[k] = <<p, p + 1>>
                    /\ output[k] = BracketToken(input[p + 1])
        /\ \A k \in 1..Len(output) :
              /\ IsBracketToken(output[k]) => spans[k][1] \in BracketIdx
              /\ output[k].type \in {"Symbol", "Num"} =>
                    \A p \in spans[k][1]..(spans[k][2] - 1) :
                        ~IsBracketChar(input[p + 1])
        /\ BracketText(output) = Pick(input, {p + 1 : p \in BracketIdx})
        /\ Balanced(Pick(input, {p + 1 : p \in BracketIdx})) =>
              Balanced(BracketText(output))

\* A symbol right between an opening and a closing bracket was lexed.
C7_Witness ==
    /\ ret.status = "Ok"
    /\ Len(input) = 3
    /\ Len(output) = 3
    /\ output[1] = LeftBracket
    /\ output[2].type = "Symbol"
    /\ output[3] = RightBracket

----------------------------------------------------------------------------
(* C8: symbols *)

\* No string, number, bracket or whitespace rule applies at index p.
NoOtherRule(s, p) ==
    /\ next_char(s, p) # "\""
    /\ ~ParsesAsNumber(s, p)
    /\ ~IsBracketChar(next_char(s, p))
    /\ ~is_whitespace(next_char(s, p))

\* C8: where no other rule applies, the token is a Symbol, and only there;
\* its text is the input from that position up to the next whitespace or
\* bracket or to the end of the input; a symbol or number that reaches the
\* end of the input is no error.
C8_SymbolToken ==
    /\ \A k \in 1..Len(output) :
          /\ output[k].type = "Symbol" <=> NoOtherRule(input, spans[k][1])
          /\ output[k].type = "Symbol" =>
                /\ output[k].text = SubSeq(input, spans[k][1] + 1, spans[k][2])
                /\ \A p \in (spans[k][1] + 1)..spans[k][2] :
                      ~is_whitespace(input[p]) /\ ~IsBracketChar(input[p])
                /\ \/ spans[k][2] = Len(input)
                   \/ is_whitespace(input[spans[k][2] + 1])
                   \/ IsBracketChar(input[spans[k][2] + 1])
    /\ (/\ Returned
        /\ Len(output) > 0
        /\ output[Len(output)].type \in {"Symbol", "Num"}
        /\ spans[Len(spans)][2] = Len(input)) => ret = Ok(output)

\* A symbol of several characters, a quote among them, ended a list at the
\* end of the input.
C8_Witness ==
    /\ ret.status = "Ok"
    /\ Len(output) >= 2
    /\ output[Len(output)].type = "Symbol"
    /\ Len(output[Len(output)].text) >= 2
    /\ \E i \in 1..Len(output[Len(output)].text) :
          output[Len(output)].text[i] = "\""
    /\ spans[Len(spans)][2] = Len(input)

----------------------------------------------------------------------------
(* C9: termination *)

\* C9: lex_input terminates on every input: every iteration of the scan
\* loop moves the scan position forward by at least one character, the
\* position never passes the end of the input, the loop is left as soon as
\* the position is the length of the input, at most as many iterations are
\* begun as the input has characters, and the call comes to an end.
C9_Terminates ==
    /\ [](current_idx <= Len(input))
    /\ [](iterations <= Len(input))
    /\ [](ret.status = "Ok" => current_idx = Len(input))
    /\ [][iterations' = iterations + 1 => current_idx' >= current_idx + 1]_vars
    /\ [][(ret = Running /\ current_idx = Len(input)) => ret'.status = "Ok"]_vars
    /\ <>Returned

\* lex_input returned after several iterations, one of which moved the
\* scan position by more than one character.
C9_Witness ==
    /\ ret.status = "Ok"
    /\ iterations >= 3
    /\ iterations < Len(input)

----------------------------------------------------------------------------
(* C12: escapes other than \" and \\ *)

\* The positions of the literal that opens at index idx and closes at
\* position q that hold an escaping backslash.
EscapingBackslashes(s, idx, q) ==
    {p \in (idx + 2)..(q - 1) : s[p] = "\\" /\ ~Escaped(s, idx + 1, p)}

\* The positions of the escaping backslashes that stand before a character
\* other than a quote and a backslash.
UnknownEscapes(s, idx, q) ==
    {p \in EscapingBackslashes(s, idx, q) : s[p + 1] \notin {"\"", "\\"}}

\* C12: inside a string literal a backslash before a character other than
\* a quote or a backslash is dropped and the character is taken as itself:
\* the value has one character less for every escaping backslash, the
\* escaped character stands at its place in the value, the character after
\* it is read unescaped (a quote there closes the literal), and the literal
\* is lexed without error.
C12_PermissiveEscape ==
    /\ \A k \in 1..Len(output) :
          output[k].type = "String" =>
              LET start == spans[k][1]
                  q     == spans[k][2]
                  esc   == EscapingBackslashes(input, start, q)
              IN  /\ Len(output[k].text) = (q - start - 2) - Cardinality(esc)
                  /\ \A p \in UnknownEscapes(input, start, q) :
                        /\ p + 1 < q
                        /\ output[k].text[(p + 1) - (start + 1)
                               - Cardinality({e \in esc : e <= p})]
                             = input[p + 1]
                        /\ input[p + 2] = "\"" => q = p + 2
    /\ (Returned /\ input = <<"\"", "\\", "a", "\"">>) =>
          ret = Ok(<<String(<<"a">>)>>)
    /\ (Returned /\ input = <<"\"", "\\", " ", "\"">>) =>
          ret = Ok(<<String(<<" ">>)>>)
    /\ (Returned /\ input = <<"\"", "\\", "(", "\"">>) =>
          ret = Ok(<<String(<<"(">>)>>)

\* A literal with a backslash before a character that is neither a quote
\* nor a backslash was lexed to the end.
C12_Witness ==
    /\ ret.status = "Ok"
    /\ \E k \in 1..Len(output) :
          /\ output[k].type = "String"
          /\ UnknownEscapes(input, spans[k][1], spans[k][2]) # {}

----------------------------------------------------------------------------
(* C13: the spans of the tokens *)

\* The text of the input that token k was lexed from.
SpanText(k) == SubSeq(input, spans[k][1] + 1, spans[k][2])

\* The tokens whose span holds index p (0-based).
TokensAt(p) == {k \in 1..Len(spans) : spans[k][1] <= p /\ p < spans[k][2]}

\* Token k is what its span spells.
SpellsToken(k) ==
    LET t == SpanText(k)
    IN  CASE output[k].type = "Symbol" -> output[k].text = t
          [] output[k].type = "Num" ->
                parse_f64(t).ok /\ output[k] = Num(parse_f64(t).val)
          [] output[k].type = "String" ->
                Len(t) >= 2 /\ t[1] = "\"" /\ t[Len(t)] = "\""
          [] output[k].type = "LeftBracket" -> t = <<"(">>
          [] output[k].type = "RightBracket" -> t = <<")">>
          [] OTHER -> FALSE

\* C13: as long as lex_input does not abort, the tokens stand in source
\* order and their spans split the text scanned so far, less the
\* whitespace outside strings: spans are not empty and follow one another
\* without overlap, every character outside every span is whitespace, every
\* whitespace character inside a span belongs to a String token, every
\* token is what its span spells, and on return the whole input is scanned.
C13_SpansPartition ==
    ret.status # "Panic" =>
        /\ current_idx <= Len(input)
        /\ \A k \in 1..Len(spans) :
              /\ 0 <= spans[k][1]
              /\ spans[k][1] < spans[k][2]
              /\ spans[k][2] <= current_idx
              /\ k < Len(spans) => spans[k][2] <= spans[k + 1][1]
              /\ SpellsToken(k)
        /\ \A p \in 0..(current_idx - 1) :
              /\ Cardinality(TokensAt(p)) <= 1
              /\ TokensAt(p) = {} => is_whitespace(input[p + 1])
              /\ is_whitespace(input[p + 1]) =>
                    \A k \in TokensAt(p) : output[k].type = "String"
        /\ ret.status = "Ok" =>
              current_idx = Len(input) /\ ret.tokens = output

\* An input with a string and another token, and whitespace between two
\* tokens, was lexed to the end.
C13_Witness ==
    /\ ret.status = "Ok"
    /\ Len(output) >= 2
    /\ \E p \in 1..(Len(input) - 2) : TokensAt(p) = {}
    /\ \E k \in 1..Len(output) : output[k].type = "String"

----------------------------------------------------------------------------
(* C14: no empty Symbol *)

\* The scan loop stands before lex_symbol: every earlier rule of this
\* iteration yielded None.
AtLexSymbol ==
    /\ InLoop
    /\ lex_string(input, current_idx).kind = "None"
    /\ lex_number(input, current_idx).kind = "None"
    /\ lex_left_bracket(input, current_idx).kind = "None"
    /\ lex_right_bracket(input, current_idx).kind = "None"
    /\ lex_whitespace(input, current_idx).kind = "None"

\* C14: whenever lex_symbol is reached, the character at the scan position
\* is neither whitespace nor a bracket nor a double quote, and the Symbol it
\* yields is not empty; no Symbol token has an empty text, and every Symbol
\* token starts with such a character.
C14_NoEmptySymbol ==
    /\ AtLexSymbol =>
          /\ ~is_whitespace(next_char(input, current_idx))
          /\ next_char(input, current_idx) \notin {"(", ")", "\""}
          /\ lex_symbol(input, current_idx).tok.text # <<>>
    /\ \A k \in 1..Len(output) :
          output[k].type = "Symbol" =>
              /\ Len(output[k].text) >= 1
              /\ output[k].text[1] = next_char(input, spans[k][1])
              /\ ~is_whitespace(output[k].text[1])
              /\ output[k].text[1] \notin {"(", ")", "\""}

\* A Symbol with a double quote after its first character was lexed, and
\* the scan stands before lex_symbol again.
C14_Witness ==
    /\ AtLexSymbol
    /\ \E k \in 1..Len(output) :
          /\ output[k].type = "Symbol"
          /\ \E i \in 2..Len(output[k].text) : output[k].text[i] = "\""

----------------------------------------------------------------------------
(* The index-based lex_input of src/src/parser.rs.  It finds characters   *)
(* with chars().nth / chars().skip (character indices) but moves its      *)
(* index by str::len (byte lengths) and loops while the index is below     *)
(* the byte length of the input.                                           *)

\* char::len_utf8: every character of the alphabet is ASCII.
len_utf8(c) == IF c \in Chars THEN 1 ELSE 2

RECURSIVE str_len(_)
\* str::len, the length in bytes.
str_len(s) == IF s = <<>> THEN 0 ELSE len_utf8(Head(s)) + str_len(Tail(s))

\* chars().nth(from_idx) is None: its expect() aborts the call.
parser_nth_is_none(s, from_idx) == from_idx >= Len(s)

\* lex_string of parser.rs that counts the opening quote only.
parser_lex_string_forgets_quote(s, from_idx) ==
    IF parser_nth_is_none(s, from_idx) THEN Panic(from_idx)
    ELSE IF next_char(s, from_idx) # "\"" THEN None(from_idx)
    ELSE LET output_text == read_while(Chars \ {"\""}, s, from_idx + 1)
         IN  Some(String(output_text), from_idx + str_len(output_text) + 1)

parser_lex_string(s, from_idx) ==
    IF parser_nth_is_none(s, from_idx) THEN Panic(from_idx)
    ELSE IF next_char(s, from_idx) # "\"" THEN None(from_idx)
    ELSE LET output_text == read_while(Chars \ {"\""}, s, from_idx + 1)
         IN  Some(String(output_text), from_idx + str_len(output_text) + 2)

parser_lex_left_bracket(s, from_idx) ==
    IF parser_nth_is_none(s, from_idx) THEN Panic(from_idx)
    ELSE IF next_char(s, from_idx) # "(" THEN None(from_idx)
    ELSE Some(LeftBracket, from_idx + 1)

parser_lex_right_bracket(s, from_idx) ==
    IF parser_nth_is_none(s, from_idx) THEN Panic(from_idx)
    ELSE IF next_char(s, from_idx) # ")" THEN None(from_idx)
    ELSE Some(RightBracket, from_idx + 1)

\* kind "Some" stands for Some(new_idx): no token.
parser_lex_whitespace(s, from_idx) ==
    IF parser_nth_is_none(s, from_idx) THEN Panic(from_idx)
    ELSE IF is_whitespace(next_char(s, from_idx))
         THEN Some(NoToken, from_idx + 1)
    ELSE None(from_idx)

\* The number rule is tried on a digit, '-' or '.', not on 'e'.
parser_lex_number(s, from_idx) ==
    IF parser_nth_is_none(s, from_idx) THEN Panic(from_idx)
    ELSE LET c == next_char(s, from_idx)
         IN  IF ~is_numeric(c) /\ c # "-" /\ c # "." THEN None(from_idx)
             ELSE LET num_as_string == read_while(number_chars, s, from_idx)
                      parsed        == parse_f64(num_as_string)
                  IN  IF parsed.ok
                      THEN Some(Num(parsed.val),
                                from_idx + str_len(num_as_string))
                      ELSE None(from_idx)

parser_lex_symbol(s, from_idx) ==
    LET output_text == read_while(symbol_chars, s, from_idx)
    IN  Some(Symbol(output_text), from_idx + str_len(output_text))

\* One iteration of the loop of parser.rs's lex_input.
parser_lex_iteration(s, idx) ==
    IF parser_lex_string(s, idx).kind # "None"
        THEN parser_lex_string(s, idx)
    ELSE IF parser_lex_number(s, idx).kind # "None"
        THEN parser_lex_number(s, idx)
    ELSE IF parser_lex_left_bracket(s, idx).kind # "None"
        THEN parser_lex_left_bracket(s, idx)
    ELSE IF parser_lex_right_bracket(s, idx).kind # "None"
        THEN parser_lex_right_bracket(s, idx)
    ELSE IF parser_lex_whitespace(s, idx).kind # "None"
        THEN parser_lex_whitespace(s, idx)
    ELSE parser_lex_symbol(s, idx)

RECURSIVE parser_lex_loop(_, _, _)
parser_lex_loop(s, current, out) ==
    IF ~(current < str_len(s)) THEN Ok(out)
    ELSE LET r == parser_lex_iteration(s, current)
         IN  IF r.kind = "Panic" THEN Aborted
             ELSE parser_lex_loop(s, r.idx,
                      IF r.tok = NoToken THEN out ELSE Append(out, r.tok))

parser_lex_input(s) == parser_lex_loop(s, 0, <<>>)

----------------------------------------------------------------------------
(* C15: the two lexers *)

IsAscii(s) == \A i \in 1..Len(s) : len_utf8(s[i]) = 1

NoBackslash(s) == \A i \in 1..Len(s) : s[i] # "\\"

\* C15: on an ASCII input without a backslash in which every string
\* literal is terminated (lex_input of lexer.rs returns), lex_input of
\* parser.rs returns the same token sequence as lex_input of lexer.rs.
C15_SameTokens ==
    (ret.status = "Ok" /\ IsAscii(input) /\ NoBackslash(input)) =>
        parser_lex_input(input) = ret

\* An input with a string literal and a symbol that starts with 'e' and
\* has no backslash was lexed to the end.
C15_Witness ==
    /\ ret.status = "Ok"
    /\ IsAscii(input)
    /\ NoBackslash(input)
    /\ \E k \in 1..Len(output) : output[k].type = "String"
    /\ \E k \in 1..Len(output) :
          output[k].type = "Symbol" /\ output[k].text[1] = "e"

====
